---- MODULE Spec2Model ----
(***************************************************************************)
(* A model of jupyter2typst (src/main.rs): the conversion of a parsed      *)
(* Jupyter notebook into typst source text.                                *)
(*                                                                         *)
(* Text is a sequence of chunks; a chunk is a TLA+ string holding either   *)
(* one character of input text or one literal piece of a template.         *)
(* A JSON value is a record [t, v]: t is the JSON type and v the payload   *)
(* (a text for "str", an integer for "num", a sequence of JSON values for  *)
(* "arr", a function from keys to JSON values for "obj").                  *)
(* A Rust Option is a sequence of length 0 (None) or 1 (Some).             *)
(* A Rust Result (or a panic) is a record [st, val] with st one of "ok",   *)
(* "err", "panic".                                                         *)
(*                                                                         *)
(* The input file is taken as read and parsed (parse_notebook_file), and   *)
(* opening and writing the output file succeed; what is printed to the     *)
(* standard output is left out.                                            *)
(***************************************************************************)
EXTENDS Integers, Sequences, FiniteSets, TLC

VARIABLES
    sel_in,     \* SpecSel: the code cell handed to format_cell_result
    sel_out,    \* SpecSel: its result, or NotRun
    md_in,      \* SpecMd: the mdast Node handed to markdown_to_typst
    md_out,     \* SpecMd: the text written to the sink, or NotRun
    fc_in,      \* SpecCell: the cell handed to format_cell
    fc_out,     \* SpecCell: its result, or NotRun
    nb,         \* Spec: the parsed input file, read by both invocations
    pc,         \* Spec: per invocation, where main is
    ctx,        \* Spec: per invocation, the Context once built
    cells,      \* Spec: per invocation, the Vec of cells once read
    outfile,    \* Spec: per invocation, the output file [exists, content]
    ixs,        \* Spec: per invocation, the array of cell indices (0-based)
    pos,          \* Spec: per invocation, the position in ixs of the next cell
    written     \* Spec: per invocation, the indices of the cells whose
                \*       non-empty block was written, in write order

varsSel == <<sel_in, sel_out>>
varsMd == <<md_in, md_out>>
varsCell == <<fc_in, fc_out>>
varsMain == <<nb, pc, ctx, cells, outfile, ixs, pos, written>>
vars == <<sel_in, sel_out, md_in, md_out, fc_in, fc_out,
          nb, pc, ctx, cells, outfile, ixs, pos, written>>

(* ------------------------------ bounds --------------------------------- *)

\* longest outputs list of a code cell
MaxOutputs == 3
\* most children of a Heading node
MaxChildren == 2
\* most cells of a notebook
MaxCells == 14

(* --------------------------- JSON, results ----------------------------- *)

Null == [t |-> "null", v |-> <<>>]
Str(s) == [t |-> "str", v |-> s]
Num(x) == [t |-> "num", v |-> x]
Arr(a) == [t |-> "arr", v |-> a]
Obj(f) == [t |-> "obj", v |-> f]

Ok(text) == [st |-> "ok", val |-> text]
Err(kind) == [st |-> "err", val |-> <<kind>>]
Panic == [st |-> "panic", val |-> <<>>]
NotRun == [st |-> "notrun", val |-> <<>>]

\* HashMap::get: Some(value) or None
Get(hm, key) == IF key \in DOMAIN hm THEN <<hm[key]>> ELSE <<>>

RECURSIVE Concat(_)
Concat(texts) ==
    IF texts = <<>> THEN <<>> ELSE Head(texts) \o Concat(Tail(texts))

\* the chunk that stands for the backtick character (U+0060)
Backtick == "BACKTICK"

Context(verbose, lang) == [verbose |-> verbose, lang |-> lang]

(* ------------------------- the Output Selector ------------------------- *)

strip_ansi_codes(s) == s

join_json_lines_array(lines) ==
    IF lines.t # "arr" THEN Panic
    ELSE IF \E i \in 1..Len(lines.v) : lines.v[i].t # "str" THEN Panic
    ELSE Ok(Concat([i \in 1..Len(lines.v) |-> lines.v[i].v]))

\* the closure get_type: None when it panics, else Some(the triple)
get_type(output) ==
    IF output.t # "obj" THEN <<>>
    ELSE IF "output_type" \in DOMAIN output.v /\ output.v["output_type"].t # "str"
    THEN <<>>
    ELSE << [ty   |-> IF "output_type" \in DOMAIN output.v
                      THEN <<output.v["output_type"].v>> ELSE <<>>,
             text |-> Get(output.v, "text"),
             data |-> Get(output.v, "data")] >>

\* one iteration of the inner loop: Some(what the function returns or how
\* it panics) or None when the loop goes on to the next record
ScanKind(k, result_type) ==
    IF k.ty # <<result_type>> THEN <<>>
    ELSE IF k.data # <<>> /\ k.data[1].t # "obj" THEN <<Panic>>
    ELSE IF k.data # <<>> /\ "text/plain" \in DOMAIN k.data[1].v
    THEN LET j == join_json_lines_array(k.data[1].v["text/plain"])
         IN  IF j.st = "ok" THEN <<Ok(strip_ansi_codes(j.val))>> ELSE <<j>>
    ELSE IF k.text # <<>>
    THEN LET j == join_json_lines_array(k.text[1])
         IN  IF j.st = "ok" THEN <<Ok(strip_ansi_codes(j.val))>> ELSE <<j>>
    ELSE <<>>

\* a single pass over the records that tries every result type on each
RECURSIVE ScanKinds_OnePass(_, _, _, _)
ScanKinds_OnePass(kinds, result_types, p, i) ==
    IF i > Len(kinds) THEN Ok(<<>>)
    ELSE IF p > Len(result_types) THEN ScanKinds_OnePass(kinds, result_types, 1, i + 1)
    ELSE LET r == ScanKind(kinds[i], result_types[p])
         IN  IF r # <<>> THEN r[1]
             ELSE ScanKinds_OnePass(kinds, result_types, p + 1, i)

\* the two nested loops, from record i of the pass for result_types[p] on
RECURSIVE ScanKinds(_, _, _, _)
ScanKinds(kinds, result_types, p, i) ==
    IF p > Len(result_types) THEN Ok(<<>>)
    ELSE IF i > Len(kinds) THEN ScanKinds(kinds, result_types, p + 1, 1)
    ELSE LET r == ScanKind(kinds[i], result_types[p])
         IN  IF r # <<>> THEN r[1]
             ELSE ScanKinds(kinds, result_types, p, i + 1)

format_cell_result(cx, cell) ==
    IF "outputs" \notin DOMAIN cell THEN Panic
    ELSE IF cell["outputs"].t # "arr" THEN Err("Json")
    ELSE LET content == cell["outputs"].v
         IN  IF \E i \in 1..Len(content) : get_type(content[i]) = <<>> THEN Panic
             ELSE ScanKinds([i \in 1..Len(content) |-> get_type(content[i])[1]],
                            << <<"execute_result">>, <<"stream">> >>, 1, 1)

(* ------------------- inputs of the Output Selector --------------------- *)

Frag(c) == Arr(<<Str(<<c>>)>>)
Frags(c, d) == Arr(<<Str(<<c>>), Str(<<d>>)>>)

PlainA == ("text/plain" :> Frag("a"))
PlainBC == ("text/plain" :> Frags("b", "c"))
HtmlOnly == ("text/html" :> Frag("h"))

OutputRecord(ty, fields) == Obj(("output_type" :> Str(<<ty>>)) @@ fields)

OutputRecords ==
    { OutputRecord("execute_result", <<>>),
      OutputRecord("execute_result", ("data" :> Obj(HtmlOnly))),
      OutputRecord("execute_result", ("data" :> Obj(PlainA))),
      OutputRecord("execute_result", ("data" :> Obj(PlainBC))),
      OutputRecord("execute_result", ("text" :> Frag("x"))),
      OutputRecord("execute_result", ("data" :> Obj(HtmlOnly)) @@ ("text" :> Frag("x"))),
      OutputRecord("execute_result", ("data" :> Obj(PlainA)) @@ ("text" :> Frag("x"))),
      OutputRecord("stream", <<>>),
      OutputRecord("stream", ("text" :> Frag("s"))),
      OutputRecord("stream", ("text" :> Frags("t", "u"))),
      OutputRecord("stream", ("data" :> Obj(PlainA))),
      OutputRecord("stream", ("data" :> Obj(HtmlOnly)) @@ ("text" :> Frag("s"))),
      OutputRecord("display_data", ("data" :> Obj(PlainA)) @@ ("text" :> Frag("s"))),
      Obj(("data" :> Obj(PlainA))),
      OutputRecord("execute_result", ("data" :> Frag("a"))),
      OutputRecord("stream", ("text" :> Str(<<"s">>))) }

SeqsUpTo(S, n) == UNION { [1..m -> S] : m \in 0..n }

OutputLists == SeqsUpTo(OutputRecords, MaxOutputs)

(* --------------------- the Markdown AST Translator --------------------- *)

\* markdown::mdast::Node, the fields this program reads
Node(kind, depth, lang, value, children) ==
    [kind |-> kind, depth |-> depth, lang |-> lang, value |-> value,
     children |-> children]

Root(children) == Node("Root", 0, <<>>, <<>>, children)
Heading(depth, children) == Node("Heading", depth, <<>>, <<>>, children)
Paragraph(children) == Node("Paragraph", 0, <<>>, <<>>, children)
Text(value) == Node("Text", 0, <<>>, value, <<>>)
InlineCode(value) == Node("InlineCode", 0, <<>>, value, <<>>)
Code(lang, value) == Node("Code", 0, lang, value, <<>>)
\* any other variant (Emphasis, Strong, List, Link, ...)
OtherNode(kind, children) == Node(kind, 0, <<>>, <<>>, children)

\* std::iter::repeat(s).take(n).collect().join("")
Repeat(s, n) == [i \in 1..n |-> s]

RECURSIVE JoinSpaced(_)
JoinSpaced(texts) ==
    IF texts = <<>> THEN <<>>
    ELSE IF Len(texts) = 1 THEN Head(texts)
    ELSE Head(texts) \o <<" ">> \o JoinSpaced(Tail(texts))

\* the translation with the children of a node joined by a single space
RECURSIVE markdown_to_typst_spaced(_)
markdown_to_typst_spaced(n) ==
    LET kids == JoinSpaced([i \in 1..Len(n.children) |->
                               markdown_to_typst_spaced(n.children[i])])
    IN  CASE n.kind = "Root" -> kids
          [] n.kind = "InlineCode" -> <<Backtick>> \o n.value \o <<Backtick>>
          [] n.kind = "Heading" -> Repeat("=", n.depth) \o <<" ">> \o kids \o <<"\n", "\n">>
          [] n.kind = "Paragraph" -> kids \o <<"\n">>
          [] n.kind = "Text" -> n.value
          [] n.kind = "Code" ->
                <<Backtick, Backtick, Backtick>> \o (IF n.lang = <<>> THEN <<>> ELSE n.lang[1])
                \o <<"\n">> \o n.value \o <<Backtick, Backtick, Backtick, "\n">>
          [] OTHER -> <<>>

\* the text markdown_to_typst appends to the sink; it always returns Ok(())
RECURSIVE markdown_to_typst(_)
markdown_to_typst(n) ==
    LET kids == Concat([i \in 1..Len(n.children) |-> markdown_to_typst(n.children[i])])
    IN  CASE n.kind = "Root" -> kids
          [] n.kind = "InlineCode" -> <<Backtick>> \o n.value \o <<Backtick>>
          [] n.kind = "Heading" -> Repeat("=", n.depth) \o <<" ">> \o kids \o <<"\n", "\n">>
          [] n.kind = "Paragraph" -> kids \o <<"\n">>
          [] n.kind = "Text" -> n.value
          [] n.kind = "Code" ->
                <<Backtick, Backtick, Backtick>> \o (IF n.lang = <<>> THEN <<>> ELSE n.lang[1]) \o <<"\n">>
                \o n.value \o <<Backtick, Backtick, Backtick, "\n">>
          [] OTHER -> <<>>

\* markdown::to_mdast with default options, on one line of text: an ATX
\* heading (1 to 6 "#" and a space) or a paragraph of plain text.  The
\* default (non-MDX) options never make it fail.
RECURSIVE LeadingHashes(_)
LeadingHashes(s) ==
    IF s # <<>> /\ Head(s) = "#" THEN 1 + LeadingHashes(Tail(s)) ELSE 0

to_mdast(s) ==
    LET d == LeadingHashes(s)
    IN  IF s = <<>> THEN Ok(<<Root(<<>>)>>)
        ELSE IF d \in 1..6 /\ Len(s) > d + 1 /\ s[d + 1] = " "
        THEN Ok(<<Root(<<Heading(d, <<Text(SubSeq(s, d + 2, Len(s)))>>)>>)>>)
        ELSE Ok(<<Root(<<Paragraph(<<Text(s)>>)>>)>>)

convert_markdown_to_typst(s) ==
    LET ast == to_mdast(s)
    IN  IF ast.st # "ok" THEN Err("Md") ELSE Ok(markdown_to_typst(ast.val[1]))

(* ------------- the Cell Classifier and Code Cell Formatter ------------- *)

HasBacktick(text) == \E i \in 1..Len(text) : text[i] = Backtick

\* f64's Display, for the whole numbers a notebook counts executions with
DisplayF64(x) == <<ToString(x)>>

\* hm["source"] converted to a Vec, its strings unwrapped and joined
JoinSource(hm) ==
    IF "source" \notin DOMAIN hm THEN Panic
    ELSE IF hm["source"].t # "arr" THEN Err("Json")
    ELSE join_json_lines_array(hm["source"])

\* the format! of a code cell
CodeContent(exec_count, lang, joined_code, result_joined) ==
    <<"\n#move(align(right, box(text([[">> \o DisplayF64(exec_count)
    \o <<"]], fill: blue), fill: red, inset: 0pt, height: 0pt)), dx: -25pt, dy: 10pt)\n#codeblock(lang: \"">>
    \o lang \o <<"\", ", Backtick>> \o joined_code \o <<Backtick, ".text)\n#resultblock(", Backtick>>
    \o result_joined \o <<Backtick, ".text)\n\n">>

\* the code branch without its assert!
FormatCodeCell_NoAssert(cx, hm) ==
    IF "execution_count" \notin DOMAIN hm \/ hm["execution_count"].t # "num" THEN Panic
    ELSE LET joined_code == JoinSource(hm)
         IN  IF joined_code.st # "ok" THEN joined_code
             ELSE LET result_joined == format_cell_result(cx, hm)
                  IN  IF result_joined.st # "ok" THEN result_joined
                      ELSE Ok(CodeContent(hm["execution_count"].v, cx.lang,
                                          joined_code.val, result_joined.val))

\* the code branch of format_cell
FormatCodeCell(cx, hm) ==
    IF "execution_count" \notin DOMAIN hm \/ hm["execution_count"].t # "num" THEN Panic
    ELSE LET joined_code == JoinSource(hm)
         IN  IF joined_code.st # "ok" THEN joined_code
             ELSE IF HasBacktick(joined_code.val) THEN Panic
             ELSE LET result_joined == format_cell_result(cx, hm)
                  IN  IF result_joined.st # "ok" THEN result_joined
                      ELSE Ok(CodeContent(hm["execution_count"].v, cx.lang,
                                          joined_code.val, result_joined.val))

\* format_cell joining the source before it looks at the cell type
format_cell_eager(cx, cell) ==
    IF cell.t # "obj" THEN Err("Json")
    ELSE LET hm == cell.v
             joined == JoinSource(hm)
         IN  IF "cell_type" \notin DOMAIN hm \/ hm["cell_type"].t # "str" THEN Panic
             ELSE IF joined.st # "ok" THEN joined
             ELSE IF hm["cell_type"].v = <<"markdown">>
             THEN convert_markdown_to_typst(joined.val)
             ELSE IF hm["cell_type"].v = <<"code">> THEN FormatCodeCell(cx, hm)
             ELSE Ok(<<>>)

format_cell(cx, cell) ==
    IF cell.t # "obj" THEN Err("Json")
    ELSE LET hm == cell.v
         IN  IF "cell_type" \notin DOMAIN hm \/ hm["cell_type"].t # "str" THEN Panic
             ELSE IF hm["cell_type"].v = <<"markdown">>
             THEN LET joined == JoinSource(hm)
                  IN  IF joined.st # "ok" THEN joined
                      ELSE convert_markdown_to_typst(joined.val)
             ELSE IF hm["cell_type"].v = <<"code">> THEN FormatCodeCell(cx, hm)
             ELSE Ok(<<>>)

(* ------------------------ inputs of format_cell ------------------------ *)

Chars(s) == Arr([i \in 1..Len(s) |-> Str(<<s[i]>>)])

\* every way to leave out the field key or give it one of values
Field(key, values) == {<<>>} \cup { (key :> x) : x \in values }

Sources ==
    { Chars(<<>>), Chars(<<"a">>), Chars(<<"a", Backtick>>), Chars(<<Backtick, Backtick, Backtick>>),
      Chars(<<"#", " ", "a">>), Chars(<<"#", "#", "#", " ", "a", "b">>),
      Chars(<<"#", "a">>), Str(<<"a">>), Arr(<<Num(1)>>) }

ExecutionCounts == { Num(1), Num(12), Null }

CellOutputs ==
    { Arr(os) : os \in SeqsUpTo(OutputRecords, 1) }
    \cup { Arr(<<OutputRecord("stream", ("text" :> Frag(Backtick)))>>),
           Arr(<<OutputRecord("execute_result", ("data" :> Obj(("text/plain" :> Frags("a", Backtick)))))>>),
           Arr(<<OutputRecord("stream", ("text" :> Frag("s"))),
                 OutputRecord("execute_result", ("data" :> Obj(PlainA)))>>),
           Null }

CellTypes == { Str(<<"markdown">>), Str(<<"code">>), Str(<<"raw">>), Str(<<"heading">>), Null }

CellRecords ==
    { Obj(ct @@ so @@ ec @@ ou) :
        ct \in Field("cell_type", CellTypes), so \in Field("source", Sources),
        ec \in Field("execution_count", ExecutionCounts),
        ou \in Field("outputs", CellOutputs) }
    \cup { Null, Str(<<"code">>) }

(* ------------------- inputs of markdown_to_typst ----------------------- *)

Depths == 1..6

HeadingChildren ==
    { Text(<<"a">>), Text(<<"=", " ">>), InlineCode(<<"c">>),
      Code(<<>>, <<"x">>), Code(<<<<"r">>>>, <<"x">>),
      Paragraph(<<Text(<<"b">>)>>), Heading(2, <<Text(<<"h">>)>>),
      OtherNode("Emphasis", <<Text(<<"e">>)>>),
      OtherNode("Link", <<InlineCode(<<"l">>)>>),
      OtherNode("ThematicBreak", <<>>) }

Nodes ==
    { Heading(d, cs) : d \in Depths, cs \in SeqsUpTo(HeadingChildren, MaxChildren) }
    \cup { Root(cs) : cs \in SeqsUpTo(HeadingChildren, 1) }
    \cup { Paragraph(cs) : cs \in SeqsUpTo(HeadingChildren, 1) }
    \cup HeadingChildren

(* what a specification leaves untouched *)
IdleSel == sel_in = <<>> /\ sel_out = NotRun
IdleMd == md_in = <<>> /\ md_out = NotRun
IdleCell == fc_in = <<>> /\ fc_out = NotRun
IdleMain ==
    /\ nb = Null
    /\ pc = <<>> /\ ctx = <<>> /\ cells = <<>> /\ outfile = <<>>
    /\ ixs = <<>> /\ pos = <<>> /\ written = <<>>

(* --------------------------- the notebooks ----------------------------- *)

Metadata == Obj(("kernelspec" :> Obj(("language" :> Str(<<"python">>))
                                     @@ ("name" :> Str(<<"python3">>)))))

FullHeader ==
    ("nbformat" :> Num(4)) @@ ("nbformat_minor" :> Num(5)) @@ ("metadata" :> Metadata)

Headers ==
    { FullHeader,
      ("nbformat_minor" :> Num(5)) @@ ("metadata" :> Metadata),
      ("nbformat" :> Num(4)) @@ ("metadata" :> Metadata),
      ("metadata" :> Metadata),
      ("nbformat" :> Num(4)) @@ ("nbformat_minor" :> Num(5)),
      ("nbformat" :> Num(4)) @@ ("nbformat_minor" :> Num(5)) @@ ("metadata" :> Null),
      ("nbformat" :> Num(4)) @@ ("nbformat_minor" :> Num(5)) @@ ("metadata" :> Obj(<<>>)),
      ("nbformat" :> Num(4)) @@ ("nbformat_minor" :> Num(5))
          @@ ("metadata" :> Obj(("kernelspec" :> Obj(("name" :> Str(<<"python3">>)))))),
      ("nbformat" :> Num(4)) @@ ("nbformat_minor" :> Num(5))
          @@ ("metadata" :> Obj(("kernelspec" :> Obj(("language" :> Null))))) }

Cell(cell_type, fields) == Obj(("cell_type" :> Str(<<cell_type>>)) @@ fields)

RawCell == Cell("raw", ("source" :> Chars(<<"r">>)))
MarkdownCell == Cell("markdown", ("source" :> Chars(<<"#", " ", "T">>)))
CodeCell ==
    Cell("code", ("source" :> Chars(<<"p">>)) @@ ("execution_count" :> Num(1))
                 @@ ("outputs" :> Arr(<<OutputRecord("execute_result", ("data" :> Obj(PlainA)))>>)))

\* a code cell whose source holds a backtick, with the outputs field given
BacktickCell(outputs) ==
    Cell("code", ("source" :> Chars(<<"a", Backtick>>)) @@ ("execution_count" :> Num(2))
                 @@ outputs)

BaseCells == { RawCell, MarkdownCell, CodeCell }

SpecialCells ==
    { BacktickCell(<<>>),
      BacktickCell(("outputs" :> Arr(<<>>))),
      BacktickCell(("outputs" :> Arr(<<OutputRecord("stream", ("text" :> Frag("s")))>>))),
      BacktickCell(("outputs" :> Null)),
      RawCell,
      Null,
      Cell("code", ("source" :> Chars(<<"p">>)) @@ ("execution_count" :> Null)
                   @@ ("outputs" :> Arr(<<>>))) }

\* n cells, all base but for cell p (0-based), which is special
CellList(n, base, p, special) == [i \in 1..n |-> IF i = p + 1 THEN special ELSE base]

CellLists ==
    { CellList(n, base, n, base) : n \in 0..MaxCells, base \in BaseCells }
    \cup { CellList(n, CodeCell, p, special) :
             n \in 1..MaxCells, p \in 0..(MaxCells - 1), special \in SpecialCells }

Notebooks ==
    { Obj(FullHeader @@ ("cells" :> Arr(cs))) : cs \in CellLists }
    \cup { Obj(h @@ ("cells" :> Arr(CellList(n, RawCell, n, RawCell)))) :
             h \in Headers, n \in 0..MaxCells }
    \cup { Obj(FullHeader), Obj(FullHeader @@ ("cells" :> Null)), Arr(<<>>) }

(* ------------------------- main, run twice ----------------------------- *)

\* the two invocations on the same input file: without and with --verbose
Runs == { "quiet", "verbose" }

\* the largest usize, which cells.len() - 1 wraps to when unchecked
\* (cut to the integers TLC has; it is only ever compared with a length)
USIZE_MAX == 2147483647

document_root ==
    << "\n",
       "#let input_notebook = \"database_and_analysis.ipynb\"\n",
       "\n",
       "#let sanitize_markdown(md) = md.replace(\"#\", \"=\").replace(\"= \", \"=\")\n",
       "\n",
       "#let bgcolor_code = luma(230)\n",
       "#let bgcolor_result = rgb(\"a7d1de\")\n",
       "#let codeblock(\n",
       "    lang: \"python\",\n",
       "    bgcolor: luma(230),\n",
       "    code) = block(fill: bgcolor,\n",
       "                  outset: 5pt,\n",
       "                  radius: 3pt,\n",
       "                  width: 100%,\n",
       "                  raw(code, lang: lang))\n",
       "#let resultblock(bgcolor: white, stroke: 1pt + luma(150), content) = [\n",
       "    #move(\n",
       "        align(\n",
       "            right, box(\n",
       "                inset: 0pt, height: 0pt, \n",
       "                text(size: 10pt, fill: luma(140))[_Result:_])),\n",
       "            dx: -4em, dy: 12pt)\n",
       "    #block(fill: bgcolor, outset: 5pt, radius: 3pt, width: 100%, stroke: stroke, raw(content))\n",
       "]\n",
       "\n",
       "\n" >>

NoFile == [exists |-> FALSE, content |-> <<>>]
NoContext == Context(FALSE, <<>>)

Init ==
    /\ nb \in Notebooks
    /\ pc = [r \in Runs |-> "start"]
    /\ ctx = [r \in Runs |-> NoContext]
    /\ cells = [r \in Runs |-> <<>>]
    /\ outfile = [r \in Runs |-> NoFile]
    /\ ixs = [r \in Runs |-> <<>>]
    /\ pos = [r \in Runs |-> 0]
    /\ written = [r \in Runs |-> <<>>]
    /\ IdleSel /\ IdleMd /\ IdleCell

\* an unwrap(), expect(), index or assert! that fails: the process aborts
PanicAt(r) == pc' = [pc EXCEPT ![r] = "panic"]

\* Some(language) when lines 302 to 306 all succeed
KernelLanguage(parsed_json) ==
    IF parsed_json.t # "obj" THEN <<>>
    ELSE IF "metadata" \notin DOMAIN parsed_json.v THEN <<>>
    ELSE IF parsed_json.v["metadata"].t # "obj" THEN <<>>
    ELSE LET metadata == parsed_json.v["metadata"].v
         IN  IF "kernelspec" \notin DOMAIN metadata THEN <<>>
             ELSE IF metadata["kernelspec"].t # "obj" THEN <<>>
             ELSE LET kernelspec == metadata["kernelspec"].v
                  IN  IF "language" \notin DOMAIN kernelspec THEN <<>>
                      ELSE IF kernelspec["language"].t # "str" THEN <<>>
                      ELSE <<kernelspec["language"].v>>

\* main, from parsing the file to building the Context
LoadContext(r) ==
    /\ pc[r] = "start"
    /\ LET language == KernelLanguage(nb)
       IN  IF language = <<>>
           THEN PanicAt(r) /\ UNCHANGED ctx
           ELSE /\ ctx' = [ctx EXCEPT ![r] = Context(r = "verbose", language[1])]
                /\ pc' = [pc EXCEPT ![r] = "overview"]
    /\ UNCHANGED <<nb, cells, outfile, ixs, pos, written, varsSel, varsMd, varsCell>>

\* whether notebook_overview returns (TRUE) or panics (FALSE)
notebook_overview(c, parsed_json) ==
    IF parsed_json.t = "obj"
    THEN IF c.verbose
         THEN /\ "nbformat" \in DOMAIN parsed_json.v
              /\ "nbformat_minor" \in DOMAIN parsed_json.v
              /\ "metadata" \in DOMAIN parsed_json.v
              /\ parsed_json.v["metadata"].t = "obj"
              /\ "kernelspec" \in DOMAIN parsed_json.v["metadata"].v
         ELSE TRUE
    ELSE TRUE

NotebookOverview(r) ==
    /\ pc[r] = "overview"
    /\ IF notebook_overview(ctx[r], nb)
       THEN pc' = [pc EXCEPT ![r] = "cells"]
       ELSE PanicAt(r)
    /\ UNCHANGED <<nb, ctx, cells, outfile, ixs, pos, written, varsSel, varsMd, varsCell>>

ReadCells(r) ==
    /\ pc[r] = "cells"
    /\ IF "cells" \in DOMAIN nb.v /\ nb.v["cells"].t = "arr"
       THEN /\ cells' = [cells EXCEPT ![r] = nb.v["cells"].v]
            /\ pc' = [pc EXCEPT ![r] = "open"]
       ELSE PanicAt(r) /\ UNCHANGED cells
    /\ UNCHANGED <<nb, ctx, outfile, ixs, pos, written, varsSel, varsMd, varsCell>>

\* the file is created or truncated and the preamble written
OpenOutfile(r) ==
    /\ pc[r] = "open"
    /\ outfile' = [outfile EXCEPT ![r] = [exists |-> TRUE, content |-> document_root]]
    /\ pc' = [pc EXCEPT ![r] = "ixs"]
    /\ UNCHANGED <<nb, ctx, cells, ixs, pos, written, varsSel, varsMd, varsCell>>

\* let ixs = [0, ..., 11, cells.len() - 1]: on no cells the subtraction
\* panics in a build that checks overflow and wraps in one that does not
BuildIxs(r) ==
    /\ pc[r] = "ixs"
    /\ \/ /\ Len(cells[r]) > 0
          /\ ixs' = [ixs EXCEPT ![r] = [j \in 1..12 |-> j - 1] \o <<Len(cells[r]) - 1>>]
          /\ pos' = [pos EXCEPT ![r] = 1]
          /\ pc' = [pc EXCEPT ![r] = "loop"]
       \/ /\ Len(cells[r]) = 0
          /\ PanicAt(r)
          /\ UNCHANGED <<ixs, pos>>
       \/ /\ Len(cells[r]) = 0
          /\ ixs' = [ixs EXCEPT ![r] = [j \in 1..12 |-> j - 1] \o <<USIZE_MAX>>]
          /\ pos' = [pos EXCEPT ![r] = 1]
          /\ pc' = [pc EXCEPT ![r] = "loop"]
    /\ UNCHANGED <<nb, ctx, cells, outfile, written, varsSel, varsMd, varsCell>>

\* one iteration of the loop over ixs; after the last, main returns
WriteCell(r) ==
    /\ pc[r] = "loop"
    /\ LET i == ixs[r][pos[r]]
       IN  IF i >= Len(cells[r])
           THEN PanicAt(r) /\ UNCHANGED <<outfile, pos, written>>
           ELSE LET res == format_cell(ctx[r], cells[r][i + 1])
                IN  IF res.st # "ok"
                    THEN PanicAt(r) /\ UNCHANGED <<outfile, pos, written>>
                    ELSE /\ outfile' = [outfile EXCEPT ![r].content = @ \o res.val]
                         /\ written' = [written EXCEPT ![r] =
                                           IF res.val = <<>> THEN @ ELSE Append(@, i)]
                         /\ pos' = [pos EXCEPT ![r] = @ + 1]
                         /\ pc' = [pc EXCEPT ![r] =
                                      IF pos[r] = Len(ixs[r]) THEN "done" ELSE "loop"]
    /\ UNCHANGED <<nb, ctx, cells, ixs, varsSel, varsMd, varsCell>>

Next ==
    \E r \in Runs :
        \/ LoadContext(r)
        \/ NotebookOverview(r)
        \/ ReadCells(r)
        \/ OpenOutfile(r)
        \/ BuildIxs(r)
        \/ WriteCell(r)

Spec == Init /\ [][Next]_vars

(* --------------- SpecSel: format_cell_result on its inputs ------------- *)

InitSel ==
    /\ sel_in \in { ("outputs" :> Arr(os)) : os \in OutputLists }
    /\ sel_out = NotRun
    /\ IdleMd /\ IdleCell /\ IdleMain

SelectOutput ==
    /\ sel_out = NotRun
    /\ sel_out' = format_cell_result(Context(FALSE, <<"python">>), sel_in)
    /\ UNCHANGED <<sel_in, varsMd, varsCell, varsMain>>

NextSel == SelectOutput

SpecSel == InitSel /\ [][NextSel]_vars

(* ---------------- SpecMd: markdown_to_typst on its inputs -------------- *)

InitMd ==
    /\ md_in \in Nodes
    /\ md_out = NotRun
    /\ IdleSel /\ IdleCell /\ IdleMain

Translate ==
    /\ md_out = NotRun
    /\ md_out' = Ok(markdown_to_typst(md_in))
    /\ UNCHANGED <<md_in, varsSel, varsCell, varsMain>>

NextMd == Translate

SpecMd == InitMd /\ [][NextMd]_vars

(* ------------------- SpecCell: format_cell on its inputs --------------- *)

InitCell ==
    /\ fc_in \in CellRecords
    /\ fc_out = NotRun
    /\ IdleSel /\ IdleMd /\ IdleMain

FormatCell ==
    /\ fc_out = NotRun
    /\ fc_out' = format_cell(Context(FALSE, <<"python">>), fc_in)
    /\ UNCHANGED <<fc_in, varsSel, varsMd, varsMain>>

NextCell == FormatCell

SpecCell == InitCell /\ [][NextCell]_vars

(* ============================== claims ================================= *)

Range(f) == { f[i] : i \in DOMAIN f }

\* the fragments of a JSON array of strings, joined
Joined(frags) == Concat([i \in 1..Len(frags.v) |-> frags.v[i].v])

IsFragments(j) == j.t = "arr" /\ \A i \in 1..Len(j.v) : j.v[i].t = "str"

\* an output record of the shape the data model gives: an object whose
\* output_type, if any, is a string, whose data, if any, is a mapping with
\* a fragmented text/plain, if any, and whose text, if any, is fragmented
WellFormedRecord(o) ==
    /\ o.t = "obj"
    /\ "output_type" \in DOMAIN o.v => o.v["output_type"].t = "str"
    /\ "data" \in DOMAIN o.v =>
          /\ o.v["data"].t = "obj"
          /\ "text/plain" \in DOMAIN o.v["data"].v => IsFragments(o.v["data"].v["text/plain"])
    /\ "text" \in DOMAIN o.v => IsFragments(o.v["text"])

HasType(o, ty) == "output_type" \in DOMAIN o.v /\ o.v["output_type"].v = <<ty>>
HasPlain(o) == "data" \in DOMAIN o.v /\ "text/plain" \in DOMAIN o.v["data"].v
HasText(o) == "text" \in DOMAIN o.v

PlainResults(os) == { i \in 1..Len(os) : HasType(os[i], "execute_result") /\ HasPlain(os[i]) }
TextStreams(os) == { i \in 1..Len(os) : HasType(os[i], "stream") /\ HasText(os[i]) }
Least(S) == CHOOSE i \in S : \A j \in S : i <= j

SelOutputs == sel_in["outputs"].v

\* execute_result records carry only data, stream records only text, and
\* there is an execute_result record with text/plain and a stream record
C1Case ==
    /\ \A i \in 1..Len(SelOutputs) :
          /\ WellFormedRecord(SelOutputs[i])
          /\ HasType(SelOutputs[i], "execute_result") => ~HasText(SelOutputs[i])
          /\ HasType(SelOutputs[i], "stream") => "data" \notin DOMAIN SelOutputs[i].v
    /\ PlainResults(SelOutputs) # {}
    /\ \E i \in 1..Len(SelOutputs) : HasType(SelOutputs[i], "stream")

\* C1: when execute_result records carry only data and stream records only
\* text, and an execute_result record with text/plain and a stream record are
\* both present, format_cell_result returns the joined text/plain fragments of
\* the first such execute_result record and not the text of a stream record,
\* wherever the stream records stand in the list.
C1_ExecuteResultOutranksStream ==
    (sel_out # NotRun /\ C1Case) =>
        /\ sel_out = Ok(Joined(SelOutputs[Least(PlainResults(SelOutputs))].v["data"].v["text/plain"]))
        /\ \A i \in TextStreams(SelOutputs) : sel_out.val # Joined(SelOutputs[i].v["text"])

\* the case of C1 with a stream record that carries text standing before the
\* first execute_result record with text/plain, and a second such record after
C1_Witness ==
    /\ sel_out.st = "ok"
    /\ C1Case
    /\ \E i \in TextStreams(SelOutputs) : i < Least(PlainResults(SelOutputs))
    /\ Cardinality(PlainResults(SelOutputs)) = 2
    /\ sel_out.val = <<"b", "c">>

\* the two-pass policy of the Output Selector
C2_Reference(os) ==
    IF PlainResults(os) # {}
    THEN Ok(Joined(os[Least(PlainResults(os))].v["data"].v["text/plain"]))
    ELSE IF TextStreams(os) # {}
    THEN Ok(Joined(os[Least(TextStreams(os))].v["text"]))
    ELSE Ok(<<>>)

\* C2: for every outputs list, format_cell_result equals the two-pass
\* policy: the text/plain of the first execute_result record that has one
\* (execute_result records without one are skipped whatever else they carry),
\* else the text of the first stream record that has one (a stream record's
\* data is never consulted), else the empty text.
C2_TwoPassPolicy ==
    (sel_out # NotRun /\ \A i \in 1..Len(SelOutputs) : WellFormedRecord(SelOutputs[i]))
        => sel_out = C2_Reference(SelOutputs)

\* a node kind markdown_to_typst has no arm for
Untranslated(n) ==
    n.kind \notin {"Root", "InlineCode", "Heading", "Paragraph", "Text", "Code"}

\* C8: a Heading node of depth d in 1..6 is translated to d heading markers,
\* one space, the translations of its children in order with nothing between
\* them, and two newlines; a child of an untranslated kind adds no text and
\* the translation succeeds.
C8_HeadingFidelity ==
    (md_out # NotRun /\ md_in.kind = "Heading" /\ md_in.depth \in 1..6) =>
        /\ md_out.st = "ok"
        /\ md_out.val =
              [i \in 1..md_in.depth |-> "="] \o <<" ">>
              \o Concat([i \in 1..Len(md_in.children) |->
                            IF Untranslated(md_in.children[i]) THEN <<>>
                            ELSE markdown_to_typst(md_in.children[i])])
              \o <<"\n", "\n">>

\* a depth 3 heading translated, with a translated child and then a child of
\* an untranslated kind that has children of its own
C8_Witness ==
    /\ md_out.st = "ok"
    /\ md_in.kind = "Heading" /\ md_in.depth = 3
    /\ Len(md_in.children) = 2
    /\ md_in.children[1].kind = "Text"
    /\ Untranslated(md_in.children[2]) /\ md_in.children[2].children # <<>>
    /\ md_out.val = <<"=", "=", "=", " ", "a", "\n", "\n">>

\* a cell record whose cell_type is a string
TypedCell(cell) ==
    cell.t = "obj" /\ "cell_type" \in DOMAIN cell.v /\ cell.v["cell_type"].t = "str"

\* C5: format_cell returns success with the empty string for every cell
\* whose cell_type is a string other than "markdown" and "code", whatever its
\* other fields hold or lack, and returns a non-empty text only for markdown
\* and code cells.
C5_TypeDispatchTotality ==
    fc_out # NotRun =>
        /\ (TypedCell(fc_in) /\ fc_in.v["cell_type"].v \notin {<<"markdown">>, <<"code">>})
              => fc_out = Ok(<<>>)
        /\ (fc_out.st = "ok" /\ fc_out.val # <<>>)
              => (TypedCell(fc_in) /\ fc_in.v["cell_type"].v \in {<<"markdown">>, <<"code">>})

\* a cell of another type formatted: it has no source, its execution_count
\* is null and its outputs are not an array
C5_Witness ==
    /\ fc_out = Ok(<<>>)
    /\ TypedCell(fc_in) /\ fc_in.v["cell_type"].v = <<"raw">>
    /\ "source" \notin DOMAIN fc_in.v
    /\ "execution_count" \in DOMAIN fc_in.v /\ fc_in.v["execution_count"] = Null
    /\ "outputs" \in DOMAIN fc_in.v /\ fc_in.v["outputs"] = Null

Backticks(text) == Cardinality({ i \in 1..Len(text) : text[i] = Backtick })

\* C9: in the block emitted for a code cell that format_cell formats, neither
\* text placed between a pair of backticks holds a backtick: the block holds
\* the four backticks of its two literals and no other.
C9_FenceSafety ==
    (fc_out.st = "ok" /\ TypedCell(fc_in) /\ fc_in.v["cell_type"].v = <<"code">>)
        => Backticks(fc_out.val) = 4

\* a code cell whose concatenated source fragments hold a backtick
BacktickCode(cell) ==
    /\ TypedCell(cell) /\ cell.v["cell_type"].v = <<"code">>
    /\ "source" \in DOMAIN cell.v /\ IsFragments(cell.v["source"])
    /\ HasBacktick(Joined(cell.v["source"]))

\* the positions of ixs whose cell the loop has handed to format_cell
Reached(r) ==
    IF pc[r] = "panic" THEN 1..pos[r]
    ELSE IF pc[r] \in {"loop", "done"} THEN 1..(pos[r] - 1)
    ELSE {}

\* C4: once the loop has reached a code cell whose source holds a backtick,
\* the run has failed there, and no block of that cell or of a later cell has
\* been written, whatever the outputs of the cell are.
C4_FencePrecondition ==
    \A r \in Runs : \A m \in Reached(r) :
        (ixs[r][m] < Len(cells[r]) /\ BacktickCode(cells[r][ixs[r][m] + 1])) =>
            /\ pc[r] = "panic" /\ m = pos[r]
            /\ \A j \in Range(written[r]) : j < ixs[r][m]

\* a run that failed on a backtick cell with a stream output, after it wrote
\* the blocks of the cells before it
C4_Witness ==
    \E r \in Runs :
        /\ pc[r] = "panic" /\ pos[r] >= 3
        /\ ixs[r][pos[r]] < Len(cells[r])
        /\ LET cell == cells[r][ixs[r][pos[r]] + 1]
           IN  /\ BacktickCode(cell)
               /\ "outputs" \in DOMAIN cell.v /\ cell.v["outputs"].t = "arr"
               /\ cell.v["outputs"].v # <<>>
        /\ Len(written[r]) = pos[r] - 1

\* C3: the indices of the cells whose blocks are written, in write order,
\* are strictly increasing.
C3_OrderPreservation ==
    \A r \in Runs : \A i, j \in 1..Len(written[r]) :
        i < j => written[r][i] < written[r][j]

Finished(r) == pc[r] \in {"done", "panic"}

\* C6: the run with verbose on and the run with verbose off leave the output
\* file in the same final state.
C6_VerboseHasNoEffect ==
    (Finished("quiet") /\ Finished("verbose")) => outfile["quiet"] = outfile["verbose"]

\* nbformat, nbformat_minor, metadata.kernelspec.language and the cells
\* array are all there
RequiredFields(parsed_json) ==
    /\ parsed_json.t = "obj"
    /\ "nbformat" \in DOMAIN parsed_json.v
    /\ "nbformat_minor" \in DOMAIN parsed_json.v
    /\ KernelLanguage(parsed_json) # <<>>
    /\ "cells" \in DOMAIN parsed_json.v /\ parsed_json.v["cells"].t = "arr"

\* C7: a run on a notebook that lacks a required top-level field does not
\* complete successfully, verbose or not.
C7_RequiredFieldsEnforced ==
    \A r \in Runs : pc[r] = "done" => RequiredFields(nb)

\* C10: a run on a notebook of n >= 1 cells that format_cell all formats
\* does not fail.
C10_LoopCompletes ==
    \A r \in Runs :
        (/\ RequiredFields(nb)
         /\ Len(nb.v["cells"].v) >= 1
         /\ \A i \in 1..Len(nb.v["cells"].v) :
               format_cell(Context(r = "verbose", KernelLanguage(nb)[1]),
                           nb.v["cells"].v[i]).st = "ok")
            => pc[r] # "panic"

====
